---- MODULE Spec2Model ----
(***************************************************************************)
(* A2C.train of stable_baselines3/a2c/a2c.py: one optimisation step in     *)
(* one of three strategies (base, SAM, HERO).  Tensors are modelled as one *)
(* integer per parameter; float division is integer division truncated     *)
(* toward zero and the L2 norm is the integer square root.                 *)
(*                                                                         *)
(* The policy network is an external collaborator; its loss on a batch is  *)
(* taken from the family                                                   *)
(*     L(theta) = SUM_i (rollout_data * i) * theta_i                       *)
(*                + (Curv / 2) * (SUM_i theta_i)^2                         *)
(* over the parameters that take part in the forward pass, so that the     *)
(* gradient depends on the point it is taken at and differs per index.     *)
(***************************************************************************)
EXTENDS Integers, Sequences, FiniteSets

\* ---------------------------------------------------------------- bounds
NParams == 2
MaxSteps == 2
MaxAdv == 1
MaxRho == 3
MaxGradNorm == 2

\* ------------------------------------------------------ program constants
\* the learning rate lr_schedule(1) is LrNum / LrDen; Curv is the curvature
\* of the loss
LrNum == 1
LrDen == 4
Curv == 1
MomNum == 9
MomDen == 10
WdNum == 5
WdDen == 10000
lambda_hero == 1
RmsAlphaNum == 99
RmsAlphaDen == 100

VARIABLES
    optimize_choice,  \* self.optimize_choice
    rho,              \* self.rho
    names,            \* names of policy.named_parameters(), in order
    unused,           \* parameters that take no part in the forward pass
    param,            \* param.data of every parameter
    grad,             \* param.grad of every parameter (value)
    gradSet,          \* param.grad is not None
    optimizer,        \* self.policy.optimizer: kind, per-parameter state
    old_p,            \* SAM's saved pre-perturbation values
    rollout_data,     \* the batch of the current step
    graph1,           \* autograd graph of the first forward pass
    graph2,           \* autograd graph of the second forward pass
    loss_grads,       \* line 186: first-pass gradient snapshot
    loss_grads_new,   \* line 222: second-pass gradients
    loss_grads_copy,  \* line 224: copy of loss_grads_new
    hero_loss,        \* line 221: the curvature loss
    pc,               \* position inside train()
    n_updates,        \* self._n_updates
    entry_param,      \* history: param at the start of the current step
    entry_optimizer,  \* history: optimizer state when train() was entered
    phases,           \* history: phases the current step has gone through
    descents          \* history: descent updates done by the current step

vars == <<optimize_choice, rho, names, unused, param, grad, gradSet, optimizer,
          old_p, rollout_data, graph1, graph2, loss_grads, loss_grads_new,
          loss_grads_copy, hero_loss, pc, n_updates, entry_param,
          entry_optimizer, phases, descents>>

config == <<optimize_choice, rho, names, unused>>
locals == <<loss_grads, loss_grads_new, loss_grads_copy, hero_loss>>
history == <<entry_param, entry_optimizer, phases, descents>>

Params == 1..NParams

\* ----------------------------------------------------------- arithmetic
Abs(x) == IF x < 0 THEN -x ELSE x

\* float division a / b (b > 0), rounded toward zero
TDiv(a, b) == IF a >= 0 THEN a \div b ELSE -((-a) \div b)

\* floor of the square root, by Newton's iteration from x down
RECURSIVE ISqrtFrom(_, _)
ISqrtFrom(n, x) ==
    LET y == (x + n \div x) \div 2 IN IF y >= x THEN x ELSE ISqrtFrom(n, y)
ISqrt(n) == IF n = 0 THEN 0 ELSE ISqrtFrom(n, n)

RECURSIVE SumOver(_, _)
SumOver(f, S) ==
    IF S = {} THEN 0
    ELSE LET i == CHOOSE j \in S : TRUE IN f[i] + SumOver(f, S \ {i})

Zeros == [i \in Params |-> 0]
NoneSet == [i \in Params |-> FALSE]

\* ------------------------------------------------------ parameter names
NameWeight == <<"w", "e", "i", "g", "h", "t">>
NameBias == <<"b", "i", "a", "s">>
NameBn == <<"s", "u", "b", "n", "e", "t">>
NameCatalogue == {NameWeight, NameBias, NameBn}
MarkerBias == <<"b", "i", "a", "s">>
MarkerBn == <<"b", "n">>

\* Python's `marker in name` on strings
Contains(name, marker) ==
    \E k \in 0..(Len(name) - Len(marker)) :
        \A j \in 1..Len(marker) : name[k + j] = marker[j]

\* faulty variant: only the bias marker is looked for
WeightFilterBiasOnly(name) == ~Contains(name, MarkerBias)

\* line 230: 'bias' not in name and 'bn' not in name
WeightFilter(name) == ~Contains(name, MarkerBias) /\ ~Contains(name, MarkerBn)

\* ------------------------------------------------------------- the loss
Connected == Params \ unused

\* d loss / d theta_i at the point theta, for the current batch
LossGrad(theta, i) == rollout_data * i + Curv * SumOver(theta, Connected)

\* d^2 loss / d theta_i d theta_j
Hessian(i, j) == IF i \in Connected /\ j \in Connected THEN Curv ELSE 0

\* loss.backward(): gradients accumulate into the .grad slots of the
\* parameters the loss depends on
BackwardGrad(theta) ==
    [i \in Params |-> IF i \in Connected
                      THEN (IF gradSet[i] THEN grad[i] ELSE 0) + LossGrad(theta, i)
                      ELSE grad[i]]
BackwardSet == [i \in Params |-> gradSet[i] \/ i \in Connected]

\* ------------------------------------------------------- the optimizers
\* An optimizer object: which one it is and its per-parameter state
\* (RMSprop's square_avg for the policy's own optimizer, the momentum
\* buffer of the wrapped SGD for SAM); has[i] says parameter i has state.
PolicyOptimizer == [kind |-> "policy", acc |-> Zeros, has |-> NoneSet]

\* lines 182-184 and 241-243: SAM(params, SGD, rho, adaptive, lr, momentum,
\* weight_decay): a new wrapper around a new SGD, with empty state
NewSAM == [kind |-> "SAM", acc |-> Zeros, has |-> NoneSet]

adaptive == TRUE

\* the L2 norm of the gradients g (has[i]: parameter i has one) at the
\* values p, each scaled by |p| when adaptive
GradNormOf(p, g, has) ==
    ISqrt(SumOver([i \in Params |->
                     IF has[i]
                     THEN ((IF adaptive THEN Abs(p[i]) ELSE 1) * g[i])
                          * ((IF adaptive THEN Abs(p[i]) ELSE 1) * g[i])
                     ELSE 0], Params))

\* the displacement of parameter i: scale * grad * |param| with
\* scale = rho / (norm + 1e-12); a zero norm gives a zero displacement
EwOf(p, g, has, i) ==
    IF ~has[i] \/ GradNormOf(p, g, has) = 0 THEN 0
    ELSE TDiv(rho * g[i] * (IF adaptive THEN Abs(p[i]) ELSE 1), GradNormOf(p, g, has))

Ew(i) == EwOf(param, grad, gradSet, i)

\* SAM.first_step(zero_grad): save the values, move to the perturbed point,
\* clear the gradients
FirstStep(zero_grad) ==
    /\ old_p' = param
    /\ param' = [i \in Params |-> param[i] + Ew(i)]
    /\ grad' = IF zero_grad THEN Zeros ELSE grad
    /\ gradSet' = IF zero_grad THEN NoneSet ELSE gradSet

\* torch.optim.SGD.step with momentum and weight decay, from the point p
SgdAcc(p) ==
    [i \in Params |->
        IF ~gradSet[i] THEN optimizer.acc[i]
        ELSE LET d == grad[i] + TDiv(WdNum * p[i], WdDen)
             IN IF optimizer.has[i]
                THEN TDiv(MomNum * optimizer.acc[i], MomDen) + d
                ELSE d]
SgdParam(p) ==
    [i \in Params |-> IF gradSet[i] THEN p[i] - TDiv(LrNum * SgdAcc(p)[i], LrDen) ELSE p[i]]

\* SAM.second_step(zero_grad): put the saved values back, let the wrapped
\* optimizer descend from there with the gradients now in place, clear them
SecondStep(zero_grad) ==
    /\ param' = SgdParam(old_p)
    /\ optimizer' = [optimizer EXCEPT !.acc = SgdAcc(old_p),
                                      !.has = [i \in Params |-> @[i] \/ gradSet[i]]]
    /\ grad' = IF zero_grad THEN Zeros ELSE grad
    /\ gradSet' = IF zero_grad THEN NoneSet ELSE gradSet
    /\ UNCHANGED old_p

\* th.nn.utils.clip_grad_norm_(parameters, max_grad_norm)
TotalNorm(g, has) ==
    ISqrt(SumOver([i \in Params |-> IF has[i] THEN g[i] * g[i] ELSE 0], Params))
ClipOf(g, has) ==
    [i \in Params |->
        IF has[i] /\ TotalNorm(g, has) > MaxGradNorm
        THEN TDiv(g[i] * MaxGradNorm, TotalNorm(g, has))
        ELSE g[i]]
ClipGrad == ClipOf(grad, gradSet)

\* th.optim.RMSprop.step (line 134-135): acc is 100 * square_avg
RmsAcc ==
    [i \in Params |->
        IF gradSet[i]
        THEN TDiv(RmsAlphaNum * optimizer.acc[i], RmsAlphaDen) + grad[i] * grad[i]
        ELSE optimizer.acc[i]]
RmsParam ==
    [i \in Params |->
        IF gradSet[i] /\ ISqrt(RmsAcc[i]) > 0
        THEN param[i] - TDiv(LrNum * grad[i] * 10, LrDen * ISqrt(RmsAcc[i]))
        ELSE param[i]]

\* ------------------------------------------------------------ train()
RollData == (-MaxAdv)..MaxAdv

Init ==
    /\ optimize_choice \in {"base", "SAM", "HERO"}
    /\ rho \in {0, MaxRho}
    /\ names \in [Params -> NameCatalogue]
    /\ unused \in {S \in SUBSET Params : Cardinality(S) <= 1}
    /\ param = [i \in Params |-> IF i % 2 = 1 THEN i ELSE -i]
    /\ grad = Zeros
    /\ gradSet = NoneSet
    /\ optimizer = PolicyOptimizer
    /\ old_p = Zeros
    /\ rollout_data = 0
    /\ graph1 = "none"
    /\ graph2 = "none"
    /\ loss_grads = <<>>
    /\ loss_grads_new = <<>>
    /\ loss_grads_copy = <<>>
    /\ hero_loss = [tensor |-> FALSE, terms |-> <<>>]
    /\ pc = "idle"
    /\ n_updates = 0
    /\ entry_param = param
    /\ entry_optimizer = optimizer
    /\ phases = <<>>
    /\ descents = 0

\* an exception leaves train(): nothing is undone, nothing else runs
Raise == /\ pc' = "aborted"
         /\ UNCHANGED <<config, param, grad, gradSet, optimizer, old_p,
                         rollout_data, graph1, graph2, locals, n_updates, history>>

\* lines 152-179: the batch is fetched, the first forward pass builds its
\* graph and the loss
Forward1 ==
    /\ pc = "idle"
    /\ n_updates < MaxSteps
    /\ \E d \in RollData : rollout_data' = d
    /\ graph1' = "alive"
    /\ entry_param' = param
    /\ entry_optimizer' = optimizer
    /\ phases' = <<"LOSS1_COMPUTED">>
    /\ descents' = 0
    /\ pc' = "dispatch"
    /\ UNCHANGED <<config, param, grad, gradSet, optimizer, old_p, graph2,
                   locals, n_updates>>

\* lines 181-184 and 240-243: the optimizer is replaced by a new SAM
InstallSAM(next) ==
    /\ pc = "dispatch"
    /\ optimizer' = NewSAM
    /\ old_p' = Zeros
    /\ pc' = next
    /\ UNCHANGED <<config, param, grad, gradSet, rollout_data, graph1, graph2,
                   locals, n_updates, history>>

\* loss.backward(retain_graph) on the graph g of a forward pass taken at the
\* current parameter values: the state of g afterwards
AfterBackward(g, retain_graph) == IF retain_graph THEN g ELSE "freed"

\* lines 185 and 244: loss.backward(retain_graph=True)
Backward1(next) ==
    /\ graph1 = "alive"
    /\ grad' = BackwardGrad(param)
    /\ gradSet' = BackwardSet
    /\ graph1' = AfterBackward(graph1, TRUE)
    /\ pc' = next
    /\ UNCHANGED <<config, param, optimizer, old_p, rollout_data, graph2,
                   locals, n_updates, history>>

\* faulty variant: first_step is called without zero_grad
CallFirstStepKeepGrad(next) ==
    /\ FirstStep(FALSE)
    /\ phases' = Append(phases, "PERTURBED")
    /\ pc' = next
    /\ UNCHANGED <<config, optimizer, rollout_data, graph1, graph2, locals,
                   n_updates, entry_param, entry_optimizer, descents>>

\* lines 191 and 245: self.policy.optimizer.first_step(zero_grad=True)
CallFirstStep(next) ==
    /\ FirstStep(TRUE)
    /\ phases' = Append(phases, "PERTURBED")
    /\ pc' = next
    /\ UNCHANGED <<config, optimizer, rollout_data, graph1, graph2, locals,
                   n_updates, entry_param, entry_optimizer, descents>>

\* lines 194-219 and 247-272: the second forward pass, on the same batch, at
\* the current (perturbed) parameter values
Forward2(next) ==
    /\ graph2' = "alive"
    /\ phases' = Append(phases, "LOSS2_COMPUTED")
    /\ pc' = next
    /\ UNCHANGED <<config, param, grad, gradSet, optimizer, old_p, rollout_data,
                   graph1, locals, n_updates, entry_param, entry_optimizer,
                   descents>>

\* faulty variant: the wrapped optimizer is stepped where the parameters
\* stand, without the revert of second_step
CallBaseStepOnly ==
    /\ param' = SgdParam(param)
    /\ optimizer' = [optimizer EXCEPT !.acc = SgdAcc(param),
                                      !.has = [i \in Params |-> @[i] \/ gradSet[i]]]
    /\ grad' = Zeros
    /\ gradSet' = NoneSet
    /\ phases' = Append(phases, "UPDATED")
    /\ descents' = descents + 1
    /\ pc' = "finish"
    /\ UNCHANGED <<config, old_p, rollout_data, graph1, graph2, locals,
                   n_updates, entry_param, entry_optimizer>>

\* lines 238 and 274: self.policy.optimizer.second_step(zero_grad=True)
CallSecondStep ==
    /\ SecondStep(TRUE)
    /\ phases' = Append(phases, "UPDATED")
    /\ descents' = descents + 1
    /\ pc' = "finish"
    /\ UNCHANGED <<config, rollout_data, graph1, graph2, locals, n_updates,
                   entry_param, entry_optimizer>>

\* ----------------------------------------------------------- HERO branch
HeroInstall == optimize_choice = "HERO" /\ InstallSAM("h_backward")

HeroBackward1 == pc = "h_backward" /\ Backward1("h_capture")

\* param.grad.data.clone().detach() of parameter i
DetachedGrad(i) == [idx |-> i, val |-> grad[i], live |-> FALSE]

\* lines 186-189: the first-pass snapshot; param.grad of a parameter without
\* gradient is None and has no attribute .data
HeroCapture ==
    /\ pc = "h_capture"
    /\ IF \E i \in Params : ~gradSet[i]
       THEN Raise
       ELSE /\ loss_grads' = [i \in Params |-> DetachedGrad(i)]
            /\ pc' = "h_first"
            /\ UNCHANGED <<config, param, grad, gradSet, optimizer, old_p,
                           rollout_data, graph1, graph2, loss_grads_new,
                           loss_grads_copy, hero_loss, n_updates, history>>

HeroFirstStep == pc = "h_first" /\ CallFirstStep("h_forward2")

HeroForward2 == pc = "h_forward2" /\ Forward2("h_autograd")

\* th.autograd.grad(loss_new, parameters, retain_graph, create_graph): the
\* gradients at the current point, as new tensors; .grad is not touched
AutogradGrad(create_graph) ==
    [i \in Params |-> [idx |-> i, val |-> LossGrad(param, i), live |-> create_graph]]

\* faulty variant: autograd.grad without retain_graph and create_graph
HeroAutogradNoGraph ==
    /\ pc = "h_autograd"
    /\ IF graph2 # "alive" \/ unused # {}
       THEN Raise
       ELSE /\ loss_grads_new' = AutogradGrad(FALSE)
            /\ graph2' = AfterBackward(graph2, FALSE)
            /\ pc' = "h_copy"
            /\ UNCHANGED <<config, param, grad, gradSet, optimizer, old_p,
                           rollout_data, graph1, loss_grads, loss_grads_copy,
                           hero_loss, n_updates, history>>

\* lines 222-223; a parameter the loss does not use is an error here
\* (allow_unused is not given)
HeroAutograd ==
    /\ pc = "h_autograd"
    /\ IF graph2 # "alive" \/ unused # {}
       THEN Raise
       ELSE /\ loss_grads_new' = AutogradGrad(TRUE)
            /\ graph2' = AfterBackward(graph2, TRUE)
            /\ pc' = "h_copy"
            /\ UNCHANGED <<config, param, grad, gradSet, optimizer, old_p,
                           rollout_data, graph1, loss_grads, loss_grads_copy,
                           hero_loss, n_updates, history>>

\* lines 224-226: grad.data.clone().detach() of every new gradient
HeroCopy ==
    /\ pc = "h_copy"
    /\ loss_grads_copy' = [k \in 1..Len(loss_grads_new) |->
                               [loss_grads_new[k] EXCEPT !.live = FALSE]]
    /\ pc' = "h_heroloss"
    /\ UNCHANGED <<config, param, grad, gradSet, optimizer, old_p, rollout_data,
                   graph1, graph2, loss_grads, loss_grads_new, hero_loss,
                   n_updates, history>>

Min(a, b) == IF a <= b THEN a ELSE b

\* zip(a, b)
Zip(a, b) == [k \in 1..Min(Len(a), Len(b)) |-> <<a[k], b[k]>>]

\* line 234: lambda_hero * criterion_hero(grad_copy, grad), the summand of
\* parameter index_param for the pair (grad, grad_copy)
HeroTerm(index_param, pair) ==
    [param |-> index_param, pre |-> pair[1], post |-> pair[2],
     val |-> lambda_hero * (pair[2].val - pair[1].val) * (pair[2].val - pair[1].val)]

\* lines 231-234: the inner loop over zip(loss_grads, loss_grads_new), from
\* position index on, adding to the summands so far
\* (line 233: both operands are tensors here, a None gradient has raised at
\* line 189 or 222)
RECURSIVE InnerLoop(_, _, _, _)
InnerLoop(index_param, pairs, index, terms) ==
    IF index > Len(pairs) THEN terms
    ELSE InnerLoop(index_param, pairs, index + 1,
                   IF index_param = index
                   THEN Append(terms, HeroTerm(index_param, pairs[index]))
                   ELSE terms)

\* lines 229-234: the outer loop over named_parameters(), from index_param on
RECURSIVE OuterLoop(_, _)
OuterLoop(index_param, terms) ==
    IF index_param > NParams THEN terms
    ELSE OuterLoop(index_param + 1,
                   IF WeightFilter(names[index_param])
                   THEN InnerLoop(index_param, Zip(loss_grads, loss_grads_new), 1, terms)
                   ELSE terms)

\* lines 221 and 229-234: hero_loss starts as the float 0. and becomes a
\* tensor with the first summand added
HeroLoss ==
    /\ pc = "h_heroloss"
    /\ hero_loss' = [tensor |-> OuterLoop(1, <<>>) # <<>>, terms |-> OuterLoop(1, <<>>)]
    /\ phases' = Append(phases, "HERO_COMPUTED")
    /\ pc' = "h_herobackward"
    /\ UNCHANGED <<config, param, grad, gradSet, optimizer, old_p, rollout_data,
                   graph1, graph2, loss_grads, loss_grads_new, loss_grads_copy,
                   n_updates, entry_param, entry_optimizer, descents>>

\* d term / d theta_j: through the live operands only
TermGrad(t, j) ==
    2 * lambda_hero * (t.post.val - t.pre.val)
      * ((IF t.post.live THEN Hessian(t.post.idx, j) ELSE 0)
         - (IF t.pre.live THEN Hessian(t.pre.idx, j) ELSE 0))

\* d hero_loss / d theta_j
HeroLossGrad(j) ==
    SumOver([k \in 1..Len(hero_loss.terms) |-> TermGrad(hero_loss.terms[k], j)],
            1..Len(hero_loss.terms))

\* line 235: hero_loss.backward(); a float has no backward, and a tensor
\* needs a live operand and its graph
HeroLossBackward ==
    /\ pc = "h_herobackward"
    /\ IF \/ ~hero_loss.tensor
          \/ graph2 # "alive"
          \/ \A k \in 1..Len(hero_loss.terms) :
                ~hero_loss.terms[k].post.live /\ ~hero_loss.terms[k].pre.live
       THEN Raise
       ELSE /\ grad' = [j \in Params |->
                          IF j \in Connected
                          THEN (IF gradSet[j] THEN grad[j] ELSE 0) + HeroLossGrad(j)
                          ELSE grad[j]]
            /\ gradSet' = BackwardSet
            /\ graph2' = AfterBackward(graph2, FALSE)
            /\ pc' = "h_combine"
            /\ UNCHANGED <<config, param, optimizer, old_p, rollout_data,
                           graph1, locals, n_updates, history>>

\* faulty variant: the first-pass snapshot is added instead of the copy
CombinedGradPre ==
    [i \in Params |-> IF i <= Len(loss_grads)
                      THEN grad[i] + loss_grads[i].val
                      ELSE grad[i]]

\* faulty variant: both snapshots are added
CombinedGradBoth ==
    [i \in Params |-> IF i <= Len(loss_grads_copy)
                      THEN grad[i] + loss_grads_copy[i].val + loss_grads[i].val
                      ELSE grad[i]]

\* lines 236-237: the gradients after param.grad += grad over
\* zip(parameters, loss_grads_copy)
CombinedGrad ==
    [i \in Params |-> IF i <= Len(loss_grads_copy)
                      THEN grad[i] + loss_grads_copy[i].val
                      ELSE grad[i]]

\* lines 236-237; None += tensor is a TypeError
HeroCombine ==
    /\ pc = "h_combine"
    /\ IF \E i \in 1..Min(NParams, Len(loss_grads_copy)) : ~gradSet[i]
       THEN Raise
       ELSE /\ grad' = CombinedGrad
            /\ pc' = "h_second"
            /\ UNCHANGED <<config, param, gradSet, optimizer, old_p,
                           rollout_data, graph1, graph2, locals, n_updates,
                           history>>

HeroSecondStep == pc = "h_second" /\ CallSecondStep

\* ------------------------------------------------------------ SAM branch
SamInstall == optimize_choice = "SAM" /\ InstallSAM("s_backward")

SamBackward1 == pc = "s_backward" /\ Backward1("s_first")

SamFirstStep == pc = "s_first" /\ CallFirstStep("s_forward2")

SamForward2 == pc = "s_forward2" /\ Forward2("s_backward2")

\* line 273: loss.backward() on the second loss
SamBackward2 ==
    /\ pc = "s_backward2"
    /\ graph2 = "alive"
    /\ grad' = BackwardGrad(param)
    /\ gradSet' = BackwardSet
    /\ graph2' = AfterBackward(graph2, FALSE)
    /\ pc' = "s_second"
    /\ UNCHANGED <<config, param, optimizer, old_p, rollout_data, graph1,
                   locals, n_updates, history>>

SamSecondStep == pc = "s_second" /\ CallSecondStep

\* ----------------------------------------------------------- base branch
\* line 277: self.policy.optimizer.zero_grad()
BaseZeroGrad ==
    /\ pc = "dispatch"
    /\ optimize_choice \notin {"HERO", "SAM"}
    /\ grad' = Zeros
    /\ gradSet' = NoneSet
    /\ pc' = "b_backward"
    /\ UNCHANGED <<config, param, optimizer, old_p, rollout_data, graph1,
                   graph2, locals, n_updates, history>>

\* line 278: loss.backward()
BaseBackward ==
    /\ pc = "b_backward"
    /\ graph1 = "alive"
    /\ grad' = BackwardGrad(param)
    /\ gradSet' = BackwardSet
    /\ graph1' = AfterBackward(graph1, FALSE)
    /\ pc' = "b_clip"
    /\ UNCHANGED <<config, param, optimizer, old_p, rollout_data, graph2,
                   locals, n_updates, history>>

\* line 281: clip_grad_norm_(parameters, max_grad_norm)
BaseClip ==
    /\ pc = "b_clip"
    /\ grad' = ClipGrad
    /\ pc' = "b_step"
    /\ UNCHANGED <<config, param, gradSet, optimizer, old_p, rollout_data,
                   graph1, graph2, locals, n_updates, history>>

\* line 282: self.policy.optimizer.step()
BaseStep ==
    /\ pc = "b_step"
    /\ param' = RmsParam
    /\ optimizer' = [optimizer EXCEPT !.acc = RmsAcc,
                                      !.has = [i \in Params |-> @[i] \/ gradSet[i]]]
    /\ phases' = Append(phases, "UPDATED")
    /\ descents' = descents + 1
    /\ pc' = "finish"
    /\ UNCHANGED <<config, grad, gradSet, old_p, rollout_data, graph1, graph2,
                   locals, n_updates, entry_param, entry_optimizer>>

\* lines 284-294: the step is counted and logged, train() returns and its
\* locals (losses, snapshots, graphs) go out of scope
Finish ==
    /\ pc = "finish"
    /\ n_updates' = n_updates + 1
    /\ graph1' = "none"
    /\ graph2' = "none"
    /\ loss_grads' = <<>>
    /\ loss_grads_new' = <<>>
    /\ loss_grads_copy' = <<>>
    /\ hero_loss' = [tensor |-> FALSE, terms |-> <<>>]
    /\ phases' = Append(phases, "IDLE")
    /\ pc' = "idle"
    /\ UNCHANGED <<config, param, grad, gradSet, optimizer, old_p, rollout_data,
                   entry_param, entry_optimizer, descents>>

Next ==
    \/ Forward1
    \/ HeroInstall \/ HeroBackward1 \/ HeroCapture \/ HeroFirstStep
    \/ HeroForward2 \/ HeroAutograd \/ HeroCopy \/ HeroLoss
    \/ HeroLossBackward \/ HeroCombine \/ HeroSecondStep
    \/ SamInstall \/ SamBackward1 \/ SamFirstStep \/ SamForward2
    \/ SamBackward2 \/ SamSecondStep
    \/ BaseZeroGrad \/ BaseBackward \/ BaseClip \/ BaseStep
    \/ Finish

Spec == Init /\ [][Next]_vars

\* ------------------------------------------------------------ properties
\* positions of train() between first_step and second_step
PerturbedPcs == {"h_forward2", "h_autograd", "h_copy", "h_heroloss",
                 "h_herobackward", "h_combine", "h_second",
                 "s_forward2", "s_backward2", "s_second"}

\* the gradient of the step's loss at the point the step started from
EntryGrad == [i \in Params |-> IF i \in Connected THEN LossGrad(entry_param, i) ELSE 0]
EntryHas == [i \in Params |-> i \in Connected]

Prescribed ==
    IF optimize_choice = "HERO"
    THEN <<"LOSS1_COMPUTED", "PERTURBED", "LOSS2_COMPUTED", "HERO_COMPUTED",
           "UPDATED", "IDLE">>
    ELSE IF optimize_choice = "SAM"
    THEN <<"LOSS1_COMPUTED", "PERTURBED", "LOSS2_COMPUTED", "UPDATED", "IDLE">>
    ELSE <<"LOSS1_COMPUTED", "UPDATED", "IDLE">>

\* C2: every training step, in every strategy, goes through exactly the
\* prescribed phases in order, does exactly one descent update and returns
\* to IDLE: a step that has ended, however it ended, has done so.
C2_PrescribedPhases ==
    /\ Len(phases) <= Len(Prescribed)
    /\ phases = SubSeq(Prescribed, 1, Len(phases))
    /\ (pc \in {"idle", "aborted"} /\ phases # <<>>) =>
          (phases = Prescribed /\ descents = 1)

\* C3: in SAM and HERO, after first_step every parameter is at
\* original + scale * grad * |param|, the saved values are the original
\* ones, and the descent update of second_step is applied from the original
\* values, never from the perturbed ones.
C3_PerturbationReversible ==
    optimize_choice \in {"SAM", "HERO"} =>
        /\ pc \in PerturbedPcs =>
              /\ old_p = entry_param
              /\ \A i \in Params :
                    param[i] = entry_param[i] + EwOf(entry_param, EntryGrad, EntryHas, i)
        /\ pc = "finish" =>
              \A i \in Params :
                  param[i] = IF optimizer.has[i]
                             THEN entry_param[i] - TDiv(LrNum * optimizer.acc[i], LrDen)
                             ELSE entry_param[i]

\* a SAM or HERO step that was displaced by first_step and has descended
C3_Witness ==
    /\ pc = "finish"
    /\ optimize_choice \in {"SAM", "HERO"}
    /\ \E i \in Params : EwOf(entry_param, EntryGrad, EntryHas, i) # 0
    /\ \E i \in Params : param[i] # entry_param[i]

\* C4: a step that aborts leaves the parameters at the values they had when
\* the step started.
C4_AbortRestoresParams == pc = "aborted" => param = entry_param

\* C5: a HERO step on a model with a parameter that gets no gradient skips
\* that parameter and does not fail.
C5_MissingGradientSkipped ==
    (optimize_choice = "HERO" /\ unused # {}) => pc # "aborted"

\* the name holds one of the two markers, read off the name directly
HasMarker(name) ==
    \/ \E k \in 1..(Len(name) - 3) : SubSeq(name, k, k + 3) = <<"b", "i", "a", "s">>
    \/ \E k \in 1..(Len(name) - 1) : SubSeq(name, k, k + 1) = <<"b", "n">>

TermsOf(i) == {k \in 1..Len(hero_loss.terms) : hero_loss.terms[k].param = i}

\* C6: once the curvature loss is built, parameter i has a summand in it if
\* and only if its name holds neither 'bias' nor 'bn'; it then has exactly
\* one, and that summand compares the i-th first-pass gradient with the i-th
\* second-pass gradient.
C6_CurvatureTerms ==
    pc \in {"h_herobackward", "h_combine", "h_second"} =>
        \A i \in Params :
            /\ Cardinality(TermsOf(i)) = IF HasMarker(names[i]) THEN 0 ELSE 1
            /\ \A k \in TermsOf(i) :
                  /\ hero_loss.terms[k].pre = loss_grads[i]
                  /\ hero_loss.terms[k].post = loss_grads_new[i]
                  /\ loss_grads[i].idx = i
                  /\ loss_grads_new[i].idx = i

\* a curvature loss with a summand, built on a model with a marked name
C6_Witness ==
    /\ pc = "h_combine"
    /\ \E i \in Params : TermsOf(i) # {}
    /\ \E i \in Params : Contains(names[i], MarkerBn)
    /\ \E i, j \in Params : loss_grads[i].val # loss_grads_new[j].val

\* the gradient the base strategy hands to its descent step from the same
\* parameters and batch
BaseHanded == ClipOf(EntryGrad, EntryHas)

\* C7 (as claimed): with rho = 0 the parameters are not displaced and the
\* gradient SAM and HERO hand to second_step is the gradient the base
\* strategy hands to its descent step.
C7_ZeroRhoIsBaseHanded ==
    rho = 0 =>
        /\ pc \in PerturbedPcs => param = entry_param
        /\ pc \in {"h_second", "s_second"} =>
              \A i \in Connected : grad[i] = BaseHanded[i]

\* C7 (amended): with rho = 0 the parameters are not displaced and the
\* gradient SAM and HERO hand to second_step is the unclipped gradient of the
\* loss at the starting point; the base strategy hands over that gradient
\* clipped to max_grad_norm, so the two agree when clipping changes nothing.
C7_ZeroRhoIsUnclippedGradient ==
    /\ rho = 0 =>
          /\ pc \in PerturbedPcs => param = entry_param
          /\ pc \in {"h_second", "s_second"} =>
                /\ \A i \in Connected : grad[i] = EntryGrad[i]
                /\ TotalNorm(EntryGrad, EntryHas) <= MaxGradNorm =>
                      \A i \in Connected : grad[i] = BaseHanded[i]
    /\ pc = "b_step" => \A i \in Connected : grad[i] = BaseHanded[i]

\* a HERO step with rho = 0 about to descend on a gradient that clipping
\* would have changed
C7_Witness ==
    /\ rho = 0
    /\ pc = "h_second"
    /\ \E i \in Params : grad[i] # BaseHanded[i]

\* C8: in SAM, when second_step is called every parameter's gradient is the
\* gradient of the second loss, taken at the perturbed point; nothing of the
\* first-pass gradient is left in it.
C8_SamDescendsOnSecondGradient ==
    pc = "s_second" =>
        \A i \in Params :
            /\ gradSet[i] = (i \in Connected)
            /\ i \in Connected => grad[i] = LossGrad(param, i)

\* a SAM step about to descend whose second gradient differs from the first
C8_Witness ==
    /\ pc = "s_second"
    /\ \E i \in Connected :
          /\ LossGrad(param, i) # LossGrad(entry_param, i)
          /\ LossGrad(entry_param, i) # 0

\* C9: in a HERO step the first-pass capture is detached and the second-pass
\* capture is live; from its creation until the curvature loss's backward
\* pass has run, the live capture's graph is alive, and every summand of the
\* curvature loss has exactly one live operand.
C9_OneLiveCapture ==
    /\ pc \in {"h_copy", "h_heroloss", "h_herobackward"} =>
          /\ graph2 = "alive"
          /\ \A k \in 1..Len(loss_grads_new) : loss_grads_new[k].live
          /\ \A k \in 1..Len(loss_grads) : ~loss_grads[k].live
          /\ Len(loss_grads_new) = NParams /\ Len(loss_grads) = NParams
    /\ \A k \in 1..Len(hero_loss.terms) :
          hero_loss.terms[k].post.live /\ ~hero_loss.terms[k].pre.live

\* the curvature loss's backward pass has run and left a gradient
C9_Witness ==
    /\ pc = "h_combine"
    /\ hero_loss.tensor
    /\ \E i \in Params : gradSet[i] /\ grad[i] # 0

\* C10: the optimizer's momentum state a step descends with is the state the
\* previous step left.
C10_MomentumCarriedOver ==
    pc \in {"h_second", "s_second", "b_step"} =>
        /\ optimizer.acc = entry_optimizer.acc
        /\ optimizer.has = entry_optimizer.has
====
